---- MODULE Spec2Model ----
(***************************************************************************)
(* Study Organizer (src/main.py): subjects, tasks, spaced-repetition       *)
(* reviews and session logging over four plain-text files.  Each command   *)
(* of the CLI is one action; a file is the sequence of its lines.          *)
(*                                                                         *)
(* A line is represented by the tuple of values that were joined with "|". *)
(* Splitting it again yields one part per "|"-free value and more parts    *)
(* for a value that itself contains "|" (Parts).                           *)
(*                                                                         *)
(* Ease is kept in hundredths (2.5 is 250): the file holds two decimals    *)
(* and every delta of _update_ease is a whole number of hundredths.        *)
(* Dates are day numbers.                                                  *)
(*                                                                         *)
(* procs holds what each of two invocations running at once has read and   *)
(* where it stands; hist records what the invocations that finished did.   *)
(* Both stay as they are while commands run one after the other.           *)
(***************************************************************************)
EXTENDS Integers, Sequences, FiniteSets, TLC

VARIABLES subjects, tasks, reviews, sessions, today, out, assigned, nops,
          procs, hist

vars == <<subjects, tasks, reviews, sessions, today, out, assigned, nops,
          procs, hist>>

stores == <<subjects, tasks, reviews, sessions>>

\* ------------------------------------------------------------- bounds
\* commands run; days passed
MaxOps == 4
MaxDay == 1

\* ------------------------------------------------------------- inputs
SubjectArgs == {"Math", " "}
TitleArgs == {"Algebra", "a|b", ""}
NameArgs == {"math", " "}
TaskIdArgs == {1, 2}
QualityArgs == {-1, 2, 5}
MinutesArgs == {30}
ClearArgs == {"all", "sessions", "tasks", "reviews", "subjects", "everything"}

\* ------------------------------------------------------------- constants
STATUS_TODO == "todo"
STATUS_DOING == "doing"
STATUS_DONE == "done"

\* ------------------------------------------------------------- strings
\* str.strip() on the strings the model uses
Strip(s) ==
  CASE s = " " -> ""
    [] OTHER -> s

\* str.lower() on the strings the model uses
Lower(s) ==
  CASE s = "Math" -> "math"
    [] s = "DONE" -> "done"
    [] OTHER -> s

\* s.split("|") on the strings the model uses
SplitText(s) ==
  CASE s = "a|b" -> <<"a", "b">>
    [] s = "a|b|c" -> <<"a", "b", "c">>
    [] s = "x|y" -> <<"x", "y">>
    [] OTHER -> <<s>>

\* len(s.split("|"))
Parts(s) == Len(SplitText(s))

\* the order of str on the strings the model uses
TextRank(s) ==
  CASE s = "Math" -> 1
    [] s = "a" -> 2
    [] OTHER -> 3

Max(a, b) == IF a >= b THEN a ELSE b

\* ------------------------------------------------------------- subjects
subjects_list == SelectSeq(subjects, LAMBDA s : Strip(s) # "")

LowerNames == {Lower(Strip(subjects_list[i])) : i \in 1..Len(subjects_list)}

\* ------------------------------------------------------------- tasks
\* _parse_task accepts a line of exactly four parts
ParsesAsTask(ln) == 1 + Parts(ln.subject) + Parts(ln.title) + 1 = 4

\* the tasks read back from the lines of the tasks file
ParseTasks(lines) == SelectSeq(lines, ParsesAsTask)

tasks_list == ParseTasks(tasks)

TaskIds(ts) == {ts[i].id : i \in 1..Len(ts)}

MaxOf(S) == CHOOSE m \in S : \A x \in S : x <= m

\* NextId without the + 1
NextId_max(ts) == IF ts # <<>> THEN MaxOf(TaskIds(ts)) ELSE 1

\* the id cmd_add_task gives the next task
NextId(ts) == IF ts # <<>> THEN MaxOf(TaskIds(ts)) + 1 ELSE 1

next_id == NextId(tasks_list)

\* ------------------------------------------------------------- reviews
load_reviews == reviews

\* index of the first record of task_id, 0 if there is none
FirstIndex(rs, task_id) ==
  IF \E i \in 1..Len(rs) : rs[i].tid = task_id
  THEN CHOOSE i \in 1..Len(rs) :
         /\ rs[i].tid = task_id
         /\ \A j \in 1..(i - 1) : rs[j].tid # task_id
  ELSE 0

\* upsert_review without the scan for an existing record
upsert_review_append(rs, task_id, interval_days, due, ease) ==
  Append(rs, [tid |-> task_id, interval |-> interval_days, due |-> due, ease |-> ease])

upsert_review(rs, task_id, interval_days, due, ease) ==
  LET r == [tid |-> task_id, interval |-> interval_days, due |-> due, ease |-> ease]
      i == FirstIndex(rs, task_id)
  IN IF i # 0 THEN [rs EXCEPT ![i] = r] ELSE Append(rs, r)

\* _update_ease without the floor of 1.3
_update_ease_nofloor(ease, quality) ==
  ease + 10 - (5 - quality) * (8 + (5 - quality) * 2)

\* _update_ease with the second-order term of delta added instead of subtracted
_update_ease_sign(ease, quality) ==
  Max(130, ease + 10 - (5 - quality) * (8 - (5 - quality) * 2))

_update_ease(ease, quality) ==
  LET delta == 10 - (5 - quality) * (8 + (5 - quality) * 2)
  IN Max(130, ease + delta)

\* int(round(interval * ease)): the nearest integer; when the product is
\* exactly halfway, the binary product falls on either side of it
RoundProduct(interval, ease) ==
  LET p == interval * ease
      lo == p \div 100
      r == p % 100
  IN IF r < 50 THEN {lo} ELSE IF r > 50 THEN {lo + 1} ELSE {lo, lo + 1}

\* NewIntervals truncating the product instead of rounding it
NewIntervals_trunc(interval, ease, quality) ==
  IF quality < 3 THEN {1}
  ELSE IF interval \in {0, 1} THEN {6}
  ELSE {Max(1, (interval * ease) \div 100)}

\* NewIntervals resetting a failed review to 0 days instead of 1
NewIntervals_zero(interval, ease, quality) ==
  IF quality < 3 THEN {0}
  ELSE IF interval \in {0, 1} THEN {6}
  ELSE {Max(1, n) : n \in RoundProduct(interval, ease)}

\* NewIntervals without the jump from 0 or 1 day to 6 days
NewIntervals_nojump(interval, ease, quality) ==
  IF quality < 3 THEN {1}
  ELSE {Max(1, n) : n \in RoundProduct(interval, ease)}

\* the interval cmd_review stores
NewIntervals(interval, ease, quality) ==
  IF quality < 3 THEN {1}
  ELSE IF interval \in {0, 1} THEN {6}
  ELSE {Max(1, n) : n \in RoundProduct(interval, ease)}

\* ReviewedWith taking the least ease for a task id that has no record
ReviewedWith_floor(rs, task_id, quality, n) ==
  LET i == FirstIndex(rs, task_id)
      ease0 == IF i = 0 THEN 130 ELSE rs[i].ease
      ease == _update_ease(ease0, quality)
      due == today + n
  IN [reviews |-> upsert_review(rs, task_id, n, due, ease),
      line |-> <<"Next review", task_id, n, due>>]

\* the review store and the printed line after cmd_review(task_id, quality)
\* that rounded to interval n
ReviewedWith(rs, task_id, quality, n) ==
  LET i == FirstIndex(rs, task_id)
      ease0 == IF i = 0 THEN 250 ELSE rs[i].ease
      ease == _update_ease(ease0, quality)
      due == today + n
  IN [reviews |-> upsert_review(rs, task_id, n, due, ease),
      line |-> <<"Next review", task_id, n, due>>]

PriorInterval(rs, task_id) ==
  LET i == FirstIndex(rs, task_id)
  IN IF i = 0 THEN 1 ELSE rs[i].interval

PriorEase(rs, task_id) ==
  LET i == FirstIndex(rs, task_id)
  IN IF i = 0 THEN 250 ELSE rs[i].ease

ReviewOutcomes(rs, task_id, quality) ==
  {ReviewedWith(rs, task_id, quality, n) :
     n \in NewIntervals(PriorInterval(rs, task_id),
                        _update_ease(PriorEase(rs, task_id), quality),
                        quality)}

\* FirstReview due one interval after the day of creation
FirstReview_later(rs, task_id, day) == upsert_review(rs, task_id, 1, day + 1, 250)

\* the review store after cmd_add_task scheduled the first review of task_id
FirstReview(rs, task_id, day) == upsert_review(rs, task_id, 1, day, 250)

\* ------------------------------------------------------------- state
\* two invocations; one that is not running; no invocation has finished
Procs == {1, 2}

Idle ==
  [pc |-> "idle", cmd |-> "", tid |-> 0, has |-> FALSE, ts |-> <<>>, rs |-> <<>>,
   interval |-> 0, due |-> 0, ease |-> 0]

NoHist == [overlapped |-> FALSE, ids |-> <<>>, last |-> {}]

Init ==
  /\ subjects = <<>>
  /\ tasks = <<>>
  /\ reviews = <<>>
  /\ sessions = <<>>
  /\ today = 0
  /\ out = <<>>
  /\ assigned = {}
  /\ nops = 0
  /\ procs = [p \in Procs |-> Idle]
  /\ hist = NoHist

\* ------------------------------------------------------------- commands
cmd_add_subject(arg) ==
  LET name == Strip(arg) IN
  /\ IF name = ""
     THEN /\ out' = <<<<"Subject name cannot be empty">>>>
          /\ UNCHANGED subjects
     ELSE IF Lower(name) \in LowerNames
     THEN /\ out' = <<<<"Subject already exists">>>>
          /\ UNCHANGED subjects
     ELSE /\ subjects' = Append(subjects, name)
          /\ out' = <<<<"Added subject">>>>
  /\ UNCHANGED <<tasks, reviews, sessions, today, assigned>>

cmd_add_task(sarg, targ) ==
  LET subject == Strip(sarg)
      title == Strip(targ)
  IN
  IF subject = "" \/ title = ""
  THEN /\ out' = <<<<"Usage: add-task">>>>
       /\ UNCHANGED <<subjects, tasks, reviews, sessions, today, assigned>>
  ELSE /\ subjects' = IF Lower(subject) \notin LowerNames
                      THEN Append(subjects, subject)
                      ELSE subjects
       /\ tasks' = Append(tasks_list,
                          [id |-> next_id, subject |-> subject,
                           title |-> title, status |-> STATUS_TODO])
       /\ reviews' = FirstReview(load_reviews, next_id, today)
       /\ out' = <<<<"Added task", next_id>>>>
       /\ assigned' = assigned \cup {next_id}
       /\ UNCHANGED <<sessions, today>>

\* WithStatus giving the status to every task
WithStatus_all(ts, task_id, new_status) ==
  [k \in 1..Len(ts) |-> [ts[k] EXCEPT !.status = new_status]]

\* the task list after cmd_update_status found task_id
WithStatus(ts, task_id, new_status) ==
  LET i == CHOOSE k \in 1..Len(ts) :
             /\ ts[k].id = task_id
             /\ \A j \in 1..(k - 1) : ts[j].id # task_id
  IN [ts EXCEPT ![i].status = new_status]

\* the tasks file and the printed line after cmd_update_status
UpdatedStatus(task_id, new_status) ==
  IF task_id \in TaskIds(tasks_list)
  THEN [tasks |-> WithStatus(tasks_list, task_id, new_status),
        line |-> <<"Task ->", task_id, new_status>>]
  ELSE [tasks |-> tasks, line |-> <<"Task not found", task_id>>]

cmd_start(task_id) ==
  LET u == UpdatedStatus(task_id, STATUS_DOING) IN
  /\ UNCHANGED <<subjects, reviews, sessions, today, assigned>>
  /\ tasks' = u.tasks
  /\ out' = <<u.line>>

cmd_review(task_id, quality) ==
  /\ UNCHANGED <<subjects, tasks, sessions, today, assigned>>
  /\ \E o \in ReviewOutcomes(load_reviews, task_id, quality) :
       /\ reviews' = o.reviews
       /\ out' = <<o.line>>

cmd_done(task_id) ==
  LET u == UpdatedStatus(task_id, STATUS_DONE) IN
  /\ UNCHANGED <<subjects, sessions, today, assigned>>
  /\ tasks' = u.tasks
  /\ \E o \in ReviewOutcomes(load_reviews, task_id, 4) :
       /\ reviews' = o.reviews
       /\ out' = <<u.line, o.line>>

\* ln.split("|") of a line of the sessions file: each part with what it
\* reads as, a date, an integer or any other text
Fields(ln) ==
  <<<<"date", ln.date>>>>
    \o [k \in 1..Parts(ln.subject) |-> <<"str", SplitText(ln.subject)[k]>>]
    \o <<<<"int", ln.task_id>>, <<"int", ln.minutes>>>>
    \o [k \in 1..Parts(ln.notes) |-> <<"str", SplitText(ln.notes)[k]>>]

\* DayTotal over the lines of every day
DayTotal_anyday(ss, subject) ==
  LET RECURSIVE Sum(_)
      Sum(k) == IF k = 0 THEN 0
                ELSE Sum(k - 1) +
                     (LET p == Fields(ss[k]) IN
                      IF Len(p) >= 4 /\ p[2] = <<"str", subject>> /\ p[4][1] = "int"
                      THEN p[4][2] ELSE 0)
  IN Sum(Len(ss))

\* the total cmd_log prints: int(p[3]) of the lines of at least four parts
\* whose p[0] is today and whose p[1] is subject, a ValueError passed over
DayTotal(ss, subject) ==
  LET RECURSIVE Sum(_)
      Sum(k) == IF k = 0 THEN 0
                ELSE Sum(k - 1) +
                     (LET p == Fields(ss[k]) IN
                      IF /\ Len(p) >= 4
                         /\ p[1] = <<"date", today>>
                         /\ p[2] = <<"str", subject>>
                         /\ p[4][1] = "int"
                      THEN p[4][2] ELSE 0)
  IN Sum(Len(ss))

cmd_log(subject, task_id, minutes, notes) ==
  /\ UNCHANGED <<subjects, tasks, reviews, today, assigned>>
  /\ sessions' = Append(sessions,
                        [date |-> today, subject |-> subject,
                         task_id |-> task_id, minutes |-> minutes,
                         notes |-> notes])
  /\ out' = <<<<"Logged", minutes, task_id, subject, DayTotal(sessions', subject)>>>>

cmd_clear(target) ==
  /\ IF target = "all"
     THEN /\ subjects' = <<>> /\ tasks' = <<>>
          /\ reviews' = <<>> /\ sessions' = <<>>
          /\ out' = <<<<"Cleared all data files">>>>
     ELSE IF target \notin {"subjects", "tasks", "reviews", "sessions"}
     THEN /\ out' = <<<<"Usage: clear">>>>
          /\ UNCHANGED stores
     ELSE /\ subjects' = IF target = "subjects" THEN <<>> ELSE subjects
          /\ tasks' = IF target = "tasks" THEN <<>> ELSE tasks
          /\ reviews' = IF target = "reviews" THEN <<>> ELSE reviews
          /\ sessions' = IF target = "sessions" THEN <<>> ELSE sessions
          /\ out' = <<<<"Cleared", target>>>>
  /\ UNCHANGED <<today, assigned>>

\* date.today() moves on between two invocations
NextDay ==
  /\ today < MaxDay
  /\ today' = today + 1
  /\ UNCHANGED <<subjects, tasks, reviews, sessions, out, assigned, nops,
                 procs, hist>>

\* one more invocation of main, run from its start to its end
Invoked == nops < MaxOps /\ nops' = nops + 1 /\ UNCHANGED <<procs, hist>>

AddSubject == Invoked /\ \E n \in NameArgs : cmd_add_subject(n)
AddTask == Invoked /\ \E s \in SubjectArgs, t \in TitleArgs : cmd_add_task(s, t)
Start == Invoked /\ \E id \in TaskIdArgs : cmd_start(id)
Done == Invoked /\ \E id \in TaskIdArgs : cmd_done(id)
Review == Invoked /\ \E id \in TaskIdArgs, q \in QualityArgs : cmd_review(id, q)
Log == Invoked /\ \E m \in MinutesArgs : cmd_log("Math", 1, m, "ok")
Clear == Invoked /\ \E t \in ClearArgs : cmd_clear(t)

Next ==
  \/ AddSubject
  \/ AddTask
  \/ Start
  \/ Done
  \/ Review
  \/ Log
  \/ Clear
  \/ NextDay

Spec == Init /\ [][Next]_vars

\* ------------------------------------------------------------- ease alone
\* _update_ease on every ease of two decimals from 1.30 to MaxEase and every
\* quality of the documented range: one task whose review record holds the ease
MaxEase == 300

GradeArgs == 0..5

InitEase ==
  /\ subjects = <<"Math">>
  /\ tasks = <<[id |-> 1, subject |-> "Math", title |-> "Algebra",
                status |-> STATUS_TODO]>>
  /\ \E e \in 130..MaxEase :
       reviews = <<[tid |-> 1, interval |-> 1, due |-> 0, ease |-> e]>>
  /\ sessions = <<>>
  /\ today = 0
  /\ out = <<>>
  /\ assigned = {1}
  /\ nops = 0
  /\ procs = [p \in Procs |-> Idle]
  /\ hist = NoHist

Grade == Invoked /\ \E q \in GradeArgs : cmd_review(1, q)

NextEase == Grade

SpecEase == InitEase /\ [][NextEase]_vars

\* ------------------------------------------------------------- listings
\* weeks passed in the listings
MaxWeeks == 1

\* review-due --on <date>; list-tasks --subject <name> --status <status>,
\* "" for an option that is not given
OnArgs == {0, 6}
ListSubjectArgs == {"", "math"}
ListStatusArgs == {"", "DONE"}

\* index of the last record of task_id, 0 if there is none: the entry a dict
\* built from the records keeps
LastIndex(rs, task_id) ==
  IF \E i \in 1..Len(rs) : rs[i].tid = task_id
  THEN CHOOSE i \in 1..Len(rs) :
         /\ rs[i].tid = task_id
         /\ \A j \in (i + 1)..Len(rs) : rs[j].tid # task_id
  ELSE 0

\* due_map.get(task_id): <<>> for None, <<due>> for a date
due_map(task_id) ==
  LET i == LastIndex(load_reviews, task_id)
  IN IF i = 0 THEN <<>> ELSE <<load_reviews[i].due>>

\* _overdue_flag of <<>> (None) or <<due>>
_overdue_flag(due_str) ==
  IF due_str = <<>> THEN ""
  ELSE IF due_str[1] < today THEN "OVERDUE" ELSE ""

\* the tasks cmd_list_tasks keeps for the two filters
Matching(subject, status) ==
  SelectSeq(tasks_list,
            LAMBDA t : /\ subject = "" \/ Lower(t.subject) = Lower(subject)
                       /\ status = "" \/ Lower(t.status) = Lower(status))

cmd_list_tasks(subject, status) ==
  LET ts == Matching(subject, status)
      Row(t) == <<"Task", t.id, t.status, t.subject, t.title, due_map(t.id),
                  _overdue_flag(IF t.status # STATUS_DONE
                                THEN due_map(t.id) ELSE <<>>)>>
  IN /\ UNCHANGED <<subjects, tasks, reviews, sessions, today, assigned>>
     /\ out' = IF ts = <<>> THEN <<<<"No matching tasks">>>>
               ELSE [k \in 1..Len(ts) |-> Row(ts[k])]

\* the records cmd_review_due keeps: due on or before the day asked for
DueItems(rs, on) == SelectSeq(rs, LAMBDA r : r.due <= on)

\* the sort key (due, tid) of a is not after that of b
KeyNotAfter(a, b) == a.due < b.due \/ (a.due = b.due /\ a.tid <= b.tid)

\* SortedItems keeping the order of the file
SortedItems_unsorted(rs) == rs

\* sorted(items, key=(due, tid)): a stable insertion of each record in turn
RECURSIVE SortedItems(_)
SortedItems(rs) ==
  IF rs = <<>> THEN <<>>
  ELSE LET r == rs[Len(rs)]
           s == SortedItems(SubSeq(rs, 1, Len(rs) - 1))
           k == Cardinality({i \in 1..Len(s) : KeyNotAfter(s[i], r)})
       IN SubSeq(s, 1, k) \o <<r>> \o SubSeq(s, k + 1, Len(s))

\* nxt taking the due date of the first record
nxt_first(rs) == rs[1].due

\* min(all_r, key=due): the due date of the first record with the least one
nxt(rs) ==
  rs[CHOOSE i \in 1..Len(rs) :
       /\ \A j \in 1..Len(rs) : rs[i].due <= rs[j].due
       /\ \A j \in 1..(i - 1) : rs[j].due # rs[i].due].due

\* tasks.get(tid): <<>> for None, <<task>> for the last task of that id
TaskOf(tid) ==
  LET ts == SelectSeq(tasks_list, LAMBDA t : t.id = tid)
  IN IF ts = <<>> THEN <<>> ELSE <<ts[Len(ts)]>>

cmd_review_due(on) ==
  LET items == DueItems(load_reviews, on)
      sorted == SortedItems(items)
      Row(r) == <<"Due", r.tid, r.due, r.interval, r.ease,
                  IF TaskOf(r.tid) = <<>> THEN "?" ELSE TaskOf(r.tid)[1].subject,
                  IF TaskOf(r.tid) = <<>> THEN "<missing>" ELSE TaskOf(r.tid)[1].title,
                  IF r.due < today THEN "OVERDUE" ELSE "DUE">>
  IN /\ UNCHANGED <<subjects, tasks, reviews, sessions, today, assigned>>
     /\ out' = IF items # <<>> THEN [k \in 1..Len(sorted) |-> Row(sorted[k])]
               ELSE IF load_reviews # <<>>
               THEN <<<<"No reviews due. Next due on", nxt(load_reviews)>>>>
               ELSE <<<<"No reviews scheduled yet">>>>

\* date.today() is a week later at the next invocation
NextWeek ==
  /\ today < 7 * MaxWeeks
  /\ today' = today + 7
  /\ UNCHANGED <<subjects, tasks, reviews, sessions, out, assigned, nops,
                 procs, hist>>

ReviewDue ==
  /\ Invoked
  /\ cmd_review_due(today) \/ \E on \in OnArgs : cmd_review_due(on)

ListTasks ==
  /\ Invoked
  /\ \E s \in ListSubjectArgs, st \in ListStatusArgs : cmd_list_tasks(s, st)

NextListing ==
  \/ AddTask
  \/ Start
  \/ Done
  \/ Review
  \/ NextWeek
  \/ ReviewDue
  \/ ListTasks

SpecListing == Init /\ [][NextListing]_vars

\* ------------------------------------------------------------- sessions
\* log <subject> <task_id> <minutes> <notes>; report --days <n>, 0 also for
\* a report without the option.  Task 1 exists, task 2 does not.
LogArgs ==
  {<<"Math", 1, 30, "ok">>, <<"Math", 1, 20, "x|y">>, <<"a", 2, 20, "ok">>,
   <<"a|b", 1, 30, "ok">>, <<"a|b|c", 1, 30, "ok">>}
DaysArgs == {0, 1, 7}

\* cutoff of cmd_report: <<>> for None, <<day>> for a date
Cutoff(days) == IF days > 0 THEN <<today - days>> ELSE <<>>

\* cmd_report adds int(p[3]) of this line to totals[p[1]]
Counted(ln, cutoff) ==
  LET p == Fields(ln) IN
  /\ Len(p) >= 4
  /\ p[1][1] = "date"
  /\ cutoff = <<>> \/ p[1][2] >= cutoff[1]
  /\ p[4][1] = "int"

\* the keys of totals and the total of a key
TotalKeys(ss, cutoff) ==
  {Fields(ss[k])[2][2] : k \in {i \in 1..Len(ss) : Counted(ss[i], cutoff)}}

TotalOf(ss, cutoff, key) ==
  LET RECURSIVE Sum(_)
      Sum(k) == IF k = 0 THEN 0
                ELSE Sum(k - 1) +
                     (IF Counted(ss[k], cutoff) /\ Fields(ss[k])[2][2] = key
                      THEN Fields(ss[k])[4][2] ELSE 0)
  IN Sum(Len(ss))

\* sorted(totals.items(), key=(-minutes, subject)) as rows
RECURSIVE ReportRows(_, _, _)
ReportRows(ss, cutoff, keys) ==
  IF keys = {} THEN <<>>
  ELSE LET first == CHOOSE a \in keys : \A b \in keys :
                      \/ TotalOf(ss, cutoff, a) > TotalOf(ss, cutoff, b)
                      \/ /\ TotalOf(ss, cutoff, a) = TotalOf(ss, cutoff, b)
                         /\ TextRank(a) <= TextRank(b)
       IN <<<<"Minutes", first, TotalOf(ss, cutoff, first)>>>>
            \o ReportRows(ss, cutoff, keys \ {first})

\* sum(totals.values())
RECURSIVE GrandTotal(_, _, _)
GrandTotal(ss, cutoff, keys) ==
  IF keys = {} THEN 0
  ELSE LET a == CHOOSE k \in keys : TRUE
       IN TotalOf(ss, cutoff, a) + GrandTotal(ss, cutoff, keys \ {a})

cmd_report(days) ==
  LET cutoff == Cutoff(days)
      keys == TotalKeys(sessions, cutoff)
  IN /\ UNCHANGED <<subjects, tasks, reviews, sessions, today, assigned>>
     /\ out' = IF keys = {} THEN <<<<"No study sessions logged">>>>
               ELSE Append(ReportRows(sessions, cutoff, keys),
                           <<"Total", GrandTotal(sessions, cutoff, keys)>>)

LogSession == Invoked /\ \E a \in LogArgs : cmd_log(a[1], a[2], a[3], a[4])
Report == Invoked /\ \E d \in DaysArgs : cmd_report(d)

\* the stores after add-task Math Algebra on day 0
InitLedger ==
  /\ subjects = <<"Math">>
  /\ tasks = <<[id |-> 1, subject |-> "Math", title |-> "Algebra",
                status |-> STATUS_TODO]>>
  /\ reviews = <<[tid |-> 1, interval |-> 1, due |-> 0, ease |-> 250]>>
  /\ sessions = <<>>
  /\ today = 0
  /\ out = <<>>
  /\ assigned = {1}
  /\ nops = 0
  /\ procs = [p \in Procs |-> Idle]
  /\ hist = NoHist

NextLedger ==
  \/ LogSession
  \/ Report
  \/ NextWeek

SpecLedger == InitLedger /\ [][NextLedger]_vars

\* ------------------------------------------------------------- two invocations
\* Two invocations of main run at once, each an add-task Math Algebra or a
\* review; a step is one read or one write of a file.  No file is locked.
RaceQualityArgs == {2, 5}

Other(p) == CHOOSE o \in Procs : o # p

\* an invocation starts: it overlaps the other one if that one is running
Launched(p) ==
  /\ nops < MaxOps
  /\ nops' = nops + 1
  /\ procs[p].pc = "idle"
  /\ hist' = [hist EXCEPT !.overlapped = @ \/ procs[Other(p)].pc # "idle"]

\* SavedTasks keeping the new task only
SavedTasks_only(ts, task_id) ==
  <<[id |-> task_id, subject |-> "Math", title |-> "Algebra", status |-> STATUS_TODO]>>

\* the list cmd_add_task hands to _save_tasks
SavedTasks(ts, task_id) ==
  Append(ts, [id |-> task_id, subject |-> "Math", title |-> "Algebra",
              status |-> STATUS_TODO])

\* cmd_add_task reads the subjects file
AddTaskBegin(p) ==
  /\ Launched(p)
  /\ procs' = [procs EXCEPT ![p] = [Idle EXCEPT !.pc = "append_subject",
                                                !.cmd = "add-task",
                                                !.has = "math" \in LowerNames]]
  /\ UNCHANGED <<subjects, tasks, reviews, sessions, today, out, assigned>>

\* and appends the subject that it did not find
AppendSubject(p) ==
  /\ procs[p].pc = "append_subject"
  /\ subjects' = IF procs[p].has THEN subjects ELSE Append(subjects, "Math")
  /\ procs' = [procs EXCEPT ![p].pc = "load_tasks"]
  /\ UNCHANGED <<tasks, reviews, sessions, today, out, assigned, nops, hist>>

\* tasks = tasks_list() and next_id
LoadTasks(p) ==
  /\ procs[p].pc = "load_tasks"
  /\ procs' = [procs EXCEPT ![p].pc = "save_tasks", ![p].ts = tasks_list,
                            ![p].tid = next_id]
  /\ UNCHANGED <<subjects, tasks, reviews, sessions, today, out, assigned, nops, hist>>

\* _save_tasks(tasks), then the call upsert_review(next_id, 1, today, 2.5)
SaveTasks(p) ==
  /\ procs[p].pc = "save_tasks"
  /\ tasks' = SavedTasks(procs[p].ts, procs[p].tid)
  /\ assigned' = assigned \cup {procs[p].tid}
  /\ procs' = [procs EXCEPT ![p].pc = "load_reviews", ![p].interval = 1,
                            ![p].due = today, ![p].ease = 250]
  /\ UNCHANGED <<subjects, reviews, sessions, today, out, nops, hist>>

\* cmd_review reads the review store and computes the next schedule, then
\* calls upsert_review
ReviewBegin(p, task_id, quality) ==
  /\ Launched(p)
  /\ \E n \in NewIntervals(PriorInterval(load_reviews, task_id),
                            _update_ease(PriorEase(load_reviews, task_id), quality),
                            quality) :
       procs' = [procs EXCEPT ![p] =
                   [Idle EXCEPT !.pc = "load_reviews", !.cmd = "review",
                                !.tid = task_id, !.interval = n,
                                !.due = today + n,
                                !.ease = _update_ease(PriorEase(load_reviews, task_id),
                                                      quality)]]
  /\ UNCHANGED <<subjects, tasks, reviews, sessions, today, out, assigned>>

\* reviews = load_reviews() of upsert_review
UpsertLoad(p) ==
  /\ procs[p].pc = "load_reviews"
  /\ procs' = [procs EXCEPT ![p].pc = "save_reviews", ![p].rs = load_reviews]
  /\ UNCHANGED <<subjects, tasks, reviews, sessions, today, out, assigned, nops, hist>>

\* _save_reviews(reviews) of upsert_review and the line the command prints
UpsertSave(p) ==
  LET l == procs[p]
      r == [tid |-> l.tid, interval |-> l.interval, due |-> l.due, ease |-> l.ease]
  IN
  /\ l.pc = "save_reviews"
  /\ reviews' = upsert_review(l.rs, l.tid, l.interval, l.due, l.ease)
  /\ out' = IF l.cmd = "add-task" THEN <<<<"Added task", l.tid>>>>
            ELSE <<<<"Next review", l.tid, l.interval, l.due>>>>
  /\ procs' = [procs EXCEPT ![p] = Idle]
  /\ hist' = [hist EXCEPT
                !.ids = IF l.cmd = "add-task" THEN Append(@, l.tid) ELSE @,
                !.last = {x \in @ : x.tid # l.tid} \cup {r}]
  /\ UNCHANGED <<subjects, tasks, sessions, today, assigned, nops>>

RaceAddTask == \E p \in Procs : AddTaskBegin(p)
RaceReview ==
  \E p \in Procs, id \in TaskIdArgs, q \in RaceQualityArgs : ReviewBegin(p, id, q)
RaceAppendSubject == \E p \in Procs : AppendSubject(p)
RaceLoadTasks == \E p \in Procs : LoadTasks(p)
RaceSaveTasks == \E p \in Procs : SaveTasks(p)
RaceUpsertLoad == \E p \in Procs : UpsertLoad(p)
RaceUpsertSave == \E p \in Procs : UpsertSave(p)

NextRace ==
  \/ RaceAddTask
  \/ RaceReview
  \/ RaceAppendSubject
  \/ RaceLoadTasks
  \/ RaceSaveTasks
  \/ RaceUpsertLoad
  \/ RaceUpsertSave

\* the stores after add-task Math Algebra on day 0
SpecRace == InitLedger /\ [][NextRace]_vars

\* ------------------------------------------------------------- claims
\* the records of task_id in a review store, in file order
ReviewsOf(rs, task_id) == SelectSeq(rs, LAMBDA r : r.tid = task_id)

\* the ease delta of a quality score, in hundredths
ClaimDelta(q) ==
  CASE q = 5 -> 10
    [] q = 4 -> 0
    [] q = 3 -> -14
    [] q = 2 -> -32
    [] q = 1 -> -54
    [] q = 0 -> -80
    [] OTHER -> 10 - (5 - q) * 8 - (5 - q) * (5 - q) * 2

\* the step printed the line of an add-task, or its usage
PrintsAddTask ==
  /\ nops' # nops
  /\ out'[1][1] \in {"Added task", "Usage: add-task"}

\* an add-task with a subject and a title
AddsTask(s, t) ==
  /\ PrintsAddTask
  /\ Strip(s) # "" /\ Strip(t) # ""
  /\ cmd_add_task(s, t)

\* the step printed the line of a review of task_id
PrintsReview(task_id) ==
  /\ nops' # nops
  /\ out'[Len(out')][1] = "Next review"
  /\ out'[Len(out')][2] = task_id

\* a review of task_id with quality q: the review command, or done with q = 4
Reviews(task_id, q) ==
  /\ PrintsReview(task_id)
  /\ cmd_review(task_id, q) \/ (q = 4 /\ cmd_done(task_id))

\* C1: the review store holds at most one ReviewState per task_id; a step that
\* leaves the store non-empty keeps every record in its place for the same
\* task_id (a review or add-task of that task replaces it there) and adds at
\* most one record, at the end, for a task_id that had none.
C1_OneReviewStatePerTask ==
  [][/\ \A i, j \in 1..Len(reviews') :
          reviews'[i].tid = reviews'[j].tid => i = j
     /\ reviews' # <<>> =>
          /\ Len(reviews') \in {Len(reviews), Len(reviews) + 1}
          /\ \A i \in 1..Len(reviews) : reviews'[i].tid = reviews[i].tid]_vars

\* a review replaced the record add-task had made for task 1, beside task 2's
C1_Witness ==
  /\ Len(reviews) = 2
  /\ reviews[1] = [tid |-> 1, interval |-> 6, due |-> today + 6, ease |-> 260]
  /\ reviews[2].tid = 2
  /\ out = <<<<"Next review", 1, 6, today + 6>>>>

\* what the claim says a review of task_id with quality q stores
C2_Stored(task_id, q) ==
  LET prior == reviews[FirstIndex(reviews, task_id)]
      new == reviews'[FirstIndex(reviews', task_id)]
      e1 == Max(130, prior.ease + ClaimDelta(q))
      p == prior.interval * e1
  IN /\ FirstIndex(reviews', task_id) # 0
     /\ new.ease = e1
     /\ q < 3 => new.interval = 1
     /\ (q >= 3 /\ prior.interval \in {0, 1}) => new.interval = 6
     /\ (q >= 3 /\ prior.interval \notin {0, 1}) =>
          \/ new.interval >= 1 /\ 100 * new.interval - 50 <= p
                               /\ p <= 100 * new.interval + 50
          \/ new.interval = 1 /\ p < 50
     /\ new.due = today + new.interval

\* C2: a review of task_id with quality q on day today, from the prior state
\* (interval, ease), stores ease' = max(1.3, ease + delta(q)); interval' = 1 if
\* q < 3, 6 if q >= 3 and the prior interval is 0 or 1, and otherwise
\* max(1, the integer nearest to interval * ease'); and due' = today + interval'.
C2_ReviewStoresSchedule ==
  [][\A task_id \in TaskIdArgs, q \in QualityArgs \cup {4} :
       (Reviews(task_id, q) /\ FirstIndex(reviews, task_id) # 0)
         => C2_Stored(task_id, q)]_vars

\* task 1 was added, reviewed with 5 (ease 2.6, interval 6) and then with 2
C2_Witness ==
  /\ nops = 3
  /\ assigned = {1}
  /\ reviews = <<[tid |-> 1, interval |-> 1, due |-> today + 1, ease |-> 228]>>
  /\ out = <<<<"Next review", 1, 1, today + 1>>>>

\* C3: every stored ReviewState has ease >= 1.3, whatever the quality scores,
\* those outside 0..5 included.
C3_EaseFloor == \A i \in 1..Len(reviews) : reviews[i].ease >= 130

\* two reviews with quality -1 took the ease from 2.5 down to the floor
C3_Witness ==
  /\ nops = 2
  /\ \E i \in 1..Len(reviews) : reviews[i].ease = 130
  /\ out[1][1] = "Next review"

\* C4: every stored ReviewState has interval_days >= 1.
C4_IntervalPositive == \A i \in 1..Len(reviews) : reviews[i].interval >= 1

\* a review with q >= 3 of a task whose interval was 6 stored the rounded product
C4_Witness ==
  /\ \E i \in 1..Len(reviews) : reviews[i].interval = 16 /\ reviews[i].ease = 270
  /\ out[1][1] = "Next review"

\* C5: for every ease (in hundredths, >= 1.3) and qualities 0 <= q1 <= q2 <= 5
\* the updated ease for q2 is >= the updated ease for q1, the update being
\* max(1.3, ease + delta) with delta +0.10, 0.00, -0.14, -0.32, -0.54, -0.80
\* for q = 5, 4, 3, 2, 1, 0.
C5_EaseMonotone ==
  \A i \in 1..Len(reviews) :
    LET e == reviews[i].ease IN
    /\ \A q1, q2 \in GradeArgs :
         q1 <= q2 => _update_ease(e, q1) <= _update_ease(e, q2)
    /\ \A q \in GradeArgs : _update_ease(e, q) = Max(130, e + ClaimDelta(q))

\* a review with a poor grade took an ease of 2.00 or less to the floor
C5_Witness ==
  /\ nops = 1
  /\ reviews[1].ease = 130
  /\ reviews[1].interval = 1
  /\ out[1][1] = "Next review"

\* C6: add-task assigns id 1 to the first task of an empty task store and
\* otherwise the largest stored id + 1; the ids of the task store are pairwise
\* distinct; log, review and clear sessions leave the next id as it was.
C6_SequentialIds ==
  [][/\ \A i, j \in 1..Len(tasks') : tasks'[i].id = tasks'[j].id => i = j
     /\ \A s \in SubjectArgs, t \in TitleArgs :
          AddsTask(s, t) =>
            /\ tasks'[Len(tasks')].id =
                 IF tasks_list = <<>> THEN 1
                 ELSE MaxOf(TaskIds(tasks_list)) + 1
            /\ out' = <<<<"Added task", tasks'[Len(tasks')].id>>>>
     /\ \/ NextId(ParseTasks(tasks')) = NextId(ParseTasks(tasks))
        \/ ~(Log \/ Review \/ cmd_clear("sessions"))]_vars

\* tasks 1, 2 and 3 exist, the sessions were just cleared, the next id is 4
C6_Witness ==
  /\ TaskIds(tasks_list) = {1, 2, 3}
  /\ out = <<<<"Cleared", "sessions">>>>
  /\ next_id = 4

\* C7: an id that add-task assigned once is never assigned again, whatever
\* was cleared in between, and the id of a stored task never changes.  Stated
\* for an add-task that finds a task store whose every line reads back as a
\* task (a line with "|" in its title does not, and its id is given again).
C7_IdsNeverReused ==
  [][/\ \A s \in SubjectArgs, t \in TitleArgs :
          (AddsTask(s, t) /\ tasks = tasks_list) => out'[1][2] \notin assigned
     /\ \A i \in 1..Len(tasks_list) :
          Len(ParseTasks(tasks')) >= i => ParseTasks(tasks')[i].id = tasks_list[i].id]_vars

\* what add-task with a subject and a title leaves for the id it printed
C8_Scheduled(id) ==
  ReviewsOf(reviews', id) =
    <<[tid |-> id, interval |-> 1, due |-> today, ease |-> 250]>>

C8_Listed(id, s, t) ==
  \E k \in 1..Len(ParseTasks(tasks')) :
    ParseTasks(tasks')[k] =
      [id |-> id, subject |-> Strip(s), title |-> Strip(t), status |-> STATUS_TODO]

\* C8 as stated: a successful add-task on day today leaves exactly the
\* ReviewState (interval 1, due today, ease 2.5) for the new id and the new
\* task with status todo in the task store; an add-task with an empty subject
\* or title changes no store.
C8_AddTaskAnyTitle ==
  [][\A s \in SubjectArgs, t \in TitleArgs :
       (PrintsAddTask /\ cmd_add_task(s, t)) =>
         IF Strip(s) = "" \/ Strip(t) = ""
         THEN UNCHANGED stores
         ELSE C8_Scheduled(out'[1][2]) /\ C8_Listed(out'[1][2], s, t)]_vars

\* C8 amended: the same, the new task being read back from the task store
\* when neither subject nor title contains the delimiter "|".
C8_AddTask ==
  [][\A s \in SubjectArgs, t \in TitleArgs :
       (PrintsAddTask /\ cmd_add_task(s, t)) =>
         IF Strip(s) = "" \/ Strip(t) = ""
         THEN UNCHANGED stores
         ELSE /\ C8_Scheduled(out'[1][2])
              /\ (Parts(Strip(s)) = 1 /\ Parts(Strip(t)) = 1)
                   => C8_Listed(out'[1][2], s, t)]_vars

\* task 2 was added on day 1, after task 1 on day 0
C8_Witness ==
  /\ today = 1
  /\ out = <<<<"Added task", 2>>>>
  /\ reviews = <<[tid |-> 1, interval |-> 1, due |-> 0, ease |-> 250],
                 [tid |-> 2, interval |-> 1, due |-> 1, ease |-> 250]>>
  /\ tasks_list[2] = [id |-> 2, subject |-> "Math", title |-> "Algebra",
                      status |-> STATUS_TODO]

\* C9: every ReviewState has a task_id that add-task assigned earlier.
C9_ReviewedWereAdded == \A i \in 1..Len(reviews) : reviews[i].tid \in assigned

\* the step left the four stores alone and printed not-found
C10_Refused ==
  /\ UNCHANGED stores
  /\ \E k \in 1..Len(out') : out'[k][1] = "Task not found"

\* C10: a status update, a review or done for a task id absent from the task
\* store reports not-found and leaves all four stores as they were.
C10_NotFoundNoMutation ==
  [][\A task_id \in TaskIdArgs :
       task_id \notin TaskIds(tasks_list) =>
         /\ cmd_start(task_id) => C10_Refused
         /\ cmd_done(task_id) => C10_Refused
         /\ \A q \in QualityArgs : cmd_review(task_id, q) => C10_Refused]_vars

\* C11: once a ReviewState exists for a task id, its values change only in a
\* review of that id: no add-task, status update, log or other step replaces
\* or alters it, also after the task store was cleared.  Stated for the
\* ReviewState of an id that add-task assigned and for a step that finds a
\* task store whose every line reads back as a task.
C11_OnlyReviewAlters ==
  [][\A i \in 1..Len(reviews) :
       (/\ tasks = tasks_list
        /\ reviews[i].tid \in assigned
        /\ ReviewsOf(reviews', reviews[i].tid) # <<>>
        /\ ~PrintsReview(reviews[i].tid))
         => ReviewsOf(reviews', reviews[i].tid) = ReviewsOf(reviews, reviews[i].tid)]_vars

\* the step printed what review-due prints
PrintsDue ==
  /\ nops' # nops
  /\ out'[1][1] \in {"Due", "No reviews due. Next due on", "No reviews scheduled yet"}

\* the records of the review store due on or before a day, and the rows of
\* the reviews-due table that was printed
C12_Due(on) == {i \in 1..Len(reviews) : reviews[i].due <= on}

C12_Rows == {k \in 1..Len(out') : out'[k][1] = "Due"}

\* C12: review-due as of a day lists exactly the ReviewStates with due on or
\* before that day, one row each, in ascending order of due and then task id.
C12_ReviewsDueListing ==
  [][\A on \in OnArgs \cup {today} :
       (PrintsDue /\ cmd_review_due(on)) =>
         /\ Cardinality(C12_Rows) = Cardinality(C12_Due(on))
         /\ \A i \in C12_Due(on) : \E k \in C12_Rows :
              <<out'[k][2], out'[k][3], out'[k][4], out'[k][5]>> =
                <<reviews[i].tid, reviews[i].due, reviews[i].interval, reviews[i].ease>>
         /\ \A j, k \in C12_Rows :
              j < k => \/ out'[j][3] < out'[k][3]
                       \/ out'[j][3] = out'[k][3] /\ out'[j][2] < out'[k][2]]_vars

\* task 2 is listed before task 1, whose record is first in the store and
\* due later
C12_Witness ==
  /\ Len(out) = 2
  /\ out[1][1] = "Due" /\ out[2][1] = "Due"
  /\ out[1][2] = 2 /\ out[2][2] = 1
  /\ out[1][3] < out[2][3]
  /\ reviews[1].tid = 1

\* C13: when no ReviewState is due on or before the day asked for, review-due
\* reports the least due date of the store, which is after that day, if the
\* store is not empty; it reports that no reviews are scheduled exactly when
\* the store is empty.
C13_NextDueDate ==
  [][\A on \in OnArgs \cup {today} :
       (PrintsDue /\ cmd_review_due(on)) =>
         /\ (out' = <<<<"No reviews scheduled yet">>>>) <=> (reviews = <<>>)
         /\ (C12_Due(on) = {} /\ reviews # <<>>) =>
              /\ Len(out') = 1
              /\ out'[1][1] = "No reviews due. Next due on"
              /\ out'[1][2] > on
              /\ \A i \in 1..Len(reviews) : out'[1][2] <= reviews[i].due
              /\ \E i \in 1..Len(reviews) : out'[1][2] = reviews[i].due]_vars

\* the date reported is that of a later record of the store
C13_Witness ==
  /\ Len(out) = 1
  /\ out[1][1] = "No reviews due. Next due on"
  /\ Len(reviews) = 2
  /\ reviews[1].due > out[1][2]
  /\ reviews[2].due = out[1][2]

\* C14: in the task list and in the reviews-due list a row is flagged OVERDUE
\* exactly when its ReviewState is due before today and the task is not done;
\* a record due today and the record of a done task are never flagged.
C14_OverdueFlag ==
  [][nops' # nops =>
       \A k \in 1..Len(out') :
         /\ out'[k][1] = "Task" =>
              (out'[k][7] = "OVERDUE" <=>
                 /\ out'[k][3] # STATUS_DONE
                 /\ \E i \in 1..Len(reviews) :
                      reviews[i].tid = out'[k][2] /\ reviews[i].due < today)
         /\ out'[k][1] = "Due" =>
              (out'[k][8] = "OVERDUE" <=>
                 /\ out'[k][3] < today
                 /\ ~\E i \in 1..Len(tasks_list) :
                      /\ tasks_list[i].id = out'[k][2]
                      /\ tasks_list[i].status = STATUS_DONE)]_vars

\* the step printed the line of a log
PrintsLogged ==
  /\ nops' # nops
  /\ out'[1][1] = "Logged"

\* the minutes of the entries of today and a subject before the step
C15_Today(subject) ==
  LET RECURSIVE Sum(_)
      Sum(k) == IF k = 0 THEN 0
                ELSE Sum(k - 1) +
                     (IF sessions[k].date = today /\ sessions[k].subject = subject
                      THEN sessions[k].minutes ELSE 0)
  IN Sum(Len(sessions))

\* the step appended one entry of today with the subject, task id and minutes
\* it printed, and left the earlier entries and the other stores alone
C15_Appended ==
  /\ Len(sessions') = Len(sessions) + 1
  /\ SubSeq(sessions', 1, Len(sessions)) = sessions
  /\ sessions'[Len(sessions')].date = today
  /\ sessions'[Len(sessions')].minutes = out'[1][2]
  /\ sessions'[Len(sessions')].task_id = out'[1][3]
  /\ sessions'[Len(sessions')].subject = out'[1][4]
  /\ UNCHANGED <<subjects, tasks, reviews>>

\* C15 as stated: a log appends exactly one entry, whether or not the task
\* id exists, leaves the earlier entries unchanged and returns the sum of the
\* minutes of all entries of today with that subject, the new one included.
C15_LogSessionAnySubject ==
  [][PrintsLogged =>
       /\ C15_Appended
       /\ out'[1][5] = C15_Today(out'[1][4]) + out'[1][2]]_vars

\* C15 amended: the same, the sum being returned when no entry of the store,
\* the new one included, has the delimiter "|" in its subject.
C15_LogSession ==
  [][PrintsLogged =>
       /\ C15_Appended
       /\ (\A k \in 1..Len(sessions') : Parts(sessions'[k].subject) = 1)
            => out'[1][5] = C15_Today(out'[1][4]) + out'[1][2]]_vars

\* 30 minutes and then 20 minutes of Math on one day print 50, after a
\* session logged for task 2, which does not exist
C15_Witness ==
  /\ out = <<<<"Logged", 20, 1, "Math", 50>>>>
  /\ Len(sessions) = 3
  /\ sessions[1].task_id \notin TaskIds(tasks_list)
  /\ sessions[2].minutes = 30 /\ sessions[2].subject = "Math"
  /\ sessions[2].date = today

\* the step printed what report prints
PrintsReport ==
  /\ nops' # nops
  /\ out'[1][1] \in {"Minutes", "No study sessions logged"}

\* an entry of five fields: neither subject nor notes holds a delimiter
C16_WellFormed(ln) == Parts(ln.subject) = 1 /\ Parts(ln.notes) = 1

\* a well-formed entry dated on or after today - days, of any date without days
C16_Summed(ln, days) ==
  /\ C16_WellFormed(ln)
  /\ days <= 0 \/ ln.date >= today - days

C16_Sum(subject, days) ==
  LET RECURSIVE Sum(_)
      Sum(k) == IF k = 0 THEN 0
                ELSE Sum(k - 1) +
                     (IF C16_Summed(sessions[k], days) /\ sessions[k].subject = subject
                      THEN sessions[k].minutes ELSE 0)
  IN Sum(Len(sessions))

\* C16: report gives for each subject the sum of the minutes of exactly the
\* well-formed entries dated on or after the cutoff (of all dates without
\* one); an entry with a wrong field count or a non-integer minutes field
\* contributes nothing.
C16_Aggregate ==
  [][\A d \in DaysArgs :
       (PrintsReport /\ cmd_report(d)) =>
         /\ \A k \in 1..Len(out') :
              out'[k][1] = "Minutes" =>
                /\ out'[k][3] = C16_Sum(out'[k][2], d)
                /\ \E i \in 1..Len(sessions) :
                     C16_Summed(sessions[i], d) /\ sessions[i].subject = out'[k][2]
         /\ \A i \in 1..Len(sessions) :
              C16_Summed(sessions[i], d) =>
                \E k \in 1..Len(out') :
                  out'[k][1] = "Minutes" /\ out'[k][2] = sessions[i].subject]_vars

\* no invocation is running
C17_Quiet == \A p \in Procs : procs[p].pc = "idle"

\* every add-task that finished has its own id and its task in the store,
\* and the store holds the record that the last finished write of each task
\* id saved
C17_NothingLost ==
  /\ Len(tasks_list) = 1 + Len(hist.ids)
  /\ \A i, j \in 1..Len(hist.ids) : i # j => hist.ids[i] # hist.ids[j]
  /\ \A i \in 1..Len(hist.ids) : hist.ids[i] \in TaskIds(tasks_list)
  /\ \A r \in hist.last : ReviewsOf(reviews, r.tid) = <<r>>

\* C17: add-task and review load a whole store, change it in memory and
\* rewrite it without a lock.  When no invocation started while another was
\* running, no update is lost and no id is given twice; two invocations
\* interleaved between load and rewrite reach a state where an update is lost
\* or two add-task were given the same id (C17_Witness).
C17_SequentialKeepsUpdates ==
  (C17_Quiet /\ ~hist.overlapped) => C17_NothingLost

\* two add-task that overlapped were given the same id and left one task,
\* and the record a review saved is no longer in the store
C17_Witness ==
  /\ C17_Quiet
  /\ hist.overlapped
  /\ \E i, j \in 1..Len(hist.ids) : i # j /\ hist.ids[i] = hist.ids[j]
  /\ Len(tasks_list) < 1 + Len(hist.ids)
  /\ \E r \in hist.last : ReviewsOf(reviews, r.tid) # <<r>>

\* the step printed the line of a status update of task_id
PrintsStatus(task_id) ==
  /\ nops' # nops
  /\ out'[1][1] \in {"Task ->", "Task not found"}
  /\ out'[1][2] = task_id

\* the tasks read back after the step are those before it, in their order,
\* but for the status of task_id
C18_OnlyStatus(task_id, new_status) ==
  /\ Len(ParseTasks(tasks')) = Len(tasks_list)
  /\ \A k \in 1..Len(tasks_list) :
       IF tasks_list[k].id = task_id
       THEN ParseTasks(tasks')[k] = [tasks_list[k] EXCEPT !.status = new_status]
       ELSE ParseTasks(tasks')[k] = tasks_list[k]

\* C18: a status update of a task id that the task store holds changes only
\* the status of that task: its id, subject and title, every other task, the
\* order of the tasks and the review, session and subject stores stay as they
\* were (done goes on to review the task); for an id the store does not hold
\* the task store is left exactly as it was.
C18_UpdateStatusFrame ==
  [][\A task_id \in TaskIdArgs :
       (PrintsStatus(task_id) /\ (cmd_start(task_id) \/ cmd_done(task_id))) =>
         /\ UNCHANGED <<subjects, sessions>>
         /\ cmd_start(task_id) => UNCHANGED reviews
         /\ IF task_id \in TaskIds(tasks_list)
            THEN /\ out'[1][1] = "Task ->"
                 /\ C18_OnlyStatus(task_id, out'[1][3])
                 /\ out'[1][3] = IF cmd_start(task_id) THEN STATUS_DOING ELSE STATUS_DONE
            ELSE tasks' = tasks]_vars

\* task 2 was started; task 1 before it is as it was added
C18_Witness ==
  /\ out = <<<<"Task ->", 2, STATUS_DOING>>>>
  /\ Len(tasks_list) = 2
  /\ tasks_list[1] = [id |-> 1, subject |-> "Math", title |-> "Algebra",
                      status |-> STATUS_TODO]
  /\ tasks_list[2] = [id |-> 2, subject |-> "Math", title |-> "Algebra",
                      status |-> STATUS_DOING]

\* the records of the other task ids, in file order
C19_Others(rs, task_id) == SelectSeq(rs, LAMBDA r : r.tid # task_id)

\* what a review with quality q stores for a record of interval 1, ease 2.5
C19_FromDefaults(task_id, q) ==
  LET n == IF q < 3 THEN 1 ELSE 6
  IN [tid |-> task_id, interval |-> n, due |-> today + n,
      ease |-> Max(130, 250 + ClaimDelta(q))]

\* C19: a review of a task id that has no ReviewState stores what a review
\* of (interval 1, ease 2.5) stores; every review leaves the ReviewStates of
\* the other task ids and their order, and the task, session and subject
\* stores, as they were (done, which prints two lines, first updates the
\* status of its task).
C19_ReviewFrame ==
  [][\A task_id \in TaskIdArgs :
       PrintsReview(task_id) =>
         /\ UNCHANGED <<subjects, sessions>>
         /\ Len(out') = 1 => UNCHANGED tasks
         /\ C19_Others(reviews', task_id) = C19_Others(reviews, task_id)
         /\ ReviewsOf(reviews, task_id) = <<>> =>
              \A q \in QualityArgs \cup {4} :
                (cmd_review(task_id, q) \/ (q = 4 /\ cmd_done(task_id))) =>
                  ReviewsOf(reviews', task_id) = <<C19_FromDefaults(task_id, q)>>]_vars

\* task 1, whose record was cleared, was reviewed with quality 5; the record
\* of task 2 stays first in the store
C19_Witness ==
  /\ out = <<<<"Next review", 1, 6, today + 6>>>>
  /\ Len(tasks_list) = 2
  /\ reviews = <<[tid |-> 2, interval |-> 1, due |-> today, ease |-> 250],
                 [tid |-> 1, interval |-> 6, due |-> today + 6, ease |-> 260]>>

\* C20: a review with quality 3 or more stores an interval greater than the
\* one before it (6 after 1, and more than the interval after any interval of
\* 2 days or more, the ease being at least 1.3), so that successful reviews
\* in a row give a strictly increasing interval; a review with quality below
\* 3 stores the interval 1.
C20_IntervalGrows ==
  [][\A q \in GradeArgs :
       (PrintsReview(1) /\ cmd_review(1, q)) =>
         IF q >= 3
         THEN /\ reviews'[1].interval > reviews[1].interval
              /\ reviews[1].interval = 1 => reviews'[1].interval = 6
         ELSE reviews'[1].interval = 1]_vars

\* three successful reviews in a row with the ease at its floor: 1, 6, 8 and
\* 10 days
C20_Witness ==
  /\ nops = 3
  /\ out = <<<<"Next review", 1, 10, 10>>>>
  /\ reviews = <<[tid |-> 1, interval |-> 10, due |-> 10, ease |-> 130]>>

====
